---- MODULE Spec2Model ----
(***************************************************************************)
(* Attachment / gallery reconciliation and insertion (tip-tap-element).    *)
(*                                                                         *)
(* The document is kept as ProseMirror's flat token sequence: an opening   *)
(* token and a closing token for every non-leaf node, one token per text   *)
(* character.  Position p of ProseMirror is the gap after the p-th token,  *)
(* so the node that starts at position p has its opening token at index    *)
(* p + 1 and nodeSize = (index of its closing token) - p.                  *)
(***************************************************************************)
EXTENDS Integers, Sequences, FiniteSets, TLC

VARIABLES doc, sel, committed, lastOp, branch, args, raised, trDoc, passes, edits,
          schema, loads, fired, figure, element, parsed

vars == <<doc, sel, committed, lastOp, branch, args, raised, trDoc, passes, edits,
          schema, loads, fired, figure, element, parsed>>

\* The variables of the serializer and the parser.
htmlVars == <<figure, element, parsed>>

\* ------------------------------------------------------------------ bounds
\* Largest document (in tokens) an operation may produce.
MaxSize == 10
\* Most edits and load callbacks in one behaviour (selection moves are free).
MaxEdits == 2
\* Most descriptors handed to one setAttachment call.
MaxInsert == 2
\* Fuel of the append-transaction loop (ProseMirror loops until no plugin
\* appends anything).
MaxRounds == 3

\* ------------------------------------------------------------ node types
GalleryT == "attachment-gallery"
FigureT == "attachment-figure"
ParagraphT == "paragraph"
DocT == "doc"

\* state.schema.nodes: the node types the editor was configured with.  The
\* Extension registers the gallery and the figure together; the paragraph
\* comes from the host editor, which may not have one.
FullSchema == {DocT, ParagraphT, GalleryT, FigureT}
PartialSchemas == {FullSchema \ {ParagraphT}}

\* AttachmentGallery.content = "block*", the document's is "block+".
IsContainer(t) == t \in {DocT, GalleryT}
\* Attachment.content = "inline*", like a paragraph.
IsTextblock(t) == t \in {ParagraphT, FigureT}

\* Attachment.addAttributes: the thirteen attributes and their defaults.
DefaultAttrs ==
    [attachmentId |-> "null", caption |-> <<>>, progress |-> 100, sgid |-> "",
     src |-> "", height |-> "", width |-> "", contentType |-> "",
     fileName |-> <<>>, fileSize |-> "", content |-> "", url |-> "",
     previewable |-> FALSE]

AttrNames == DOMAIN DefaultAttrs

\* Attribute record of the tokens that carry none.
NoAttrs == DefaultAttrs

\* --------------------------------------------------------------- tokens
Open(t, a) == [k |-> "open", type |-> t, attrs |-> a, ch |-> ""]
Close == [k |-> "close", type |-> "", attrs |-> NoAttrs, ch |-> ""]
Char(c) == [k |-> "text", type |-> "text", attrs |-> NoAttrs, ch |-> c]

Max(S) == CHOOSE x \in S : \A y \in S : y <= x
Min(S) == CHOOSE x \in S : \A y \in S : x <= y

RECURSIVE Chars(_)
Chars(s) == IF s = <<>> THEN <<>> ELSE <<Char(Head(s))>> \o Chars(Tail(s))

\* schema.node("paragraph", null, []) / schema.nodes.paragraph.create()
EmptyParagraph == <<Open(ParagraphT, NoAttrs), Close>>

\* Index of the closing token of the node opened at index i.
RECURSIVE MatchFrom(_, _, _)
MatchFrom(d, j, depth) ==
    IF j > Len(d) THEN 0
    ELSE IF d[j].k = "open" THEN MatchFrom(d, j + 1, depth + 1)
    ELSE IF d[j].k = "close"
         THEN (IF depth = 0 THEN j ELSE MatchFrom(d, j + 1, depth - 1))
         ELSE MatchFrom(d, j + 1, depth)

Match(d, i) == MatchFrom(d, i + 1, 0)

\* node.nodeSize of the node opened at index i (a text character has size 1).
NodeSize(d, i) == IF d[i].k = "open" THEN Match(d, i) - i + 1 ELSE 1

\* doc.resolve(pos): the indices of the opening tokens of the ancestors of
\* pos, outermost first ($pos.path); its length is $pos.depth.
RECURSIVE PathFrom(_, _, _, _)
PathFrom(d, j, pos, path) ==
    IF j > pos THEN path
    ELSE IF d[j].k = "open" THEN PathFrom(d, j + 1, pos, Append(path, j))
    ELSE IF d[j].k = "close" THEN PathFrom(d, j + 1, pos, SubSeq(path, 1, Len(path) - 1))
    ELSE PathFrom(d, j + 1, pos, path)

Path(d, pos) == PathFrom(d, 1, pos, <<>>)

\* $pos.node(depth).type.name
TypeAt(d, path, depth) == IF depth = 0 THEN DocT ELSE d[path[depth]].type

\* $pos.parent.type.name
ParentType(d, pos) == LET p == Path(d, pos) IN TypeAt(d, p, Len(p))

\* $pos.end(depth)
EndAt(d, path, depth) == IF depth = 0 THEN Len(d) ELSE Match(d, path[depth]) - 1

\* Schema check of a token sequence: brackets balanced, block nodes only in
\* block containers, text only in textblocks, a non-empty document.
RECURSIVE ValidFrom(_, _, _)
ValidFrom(d, i, stack) ==
    IF i > Len(d) THEN stack = <<>>
    ELSE LET top == IF stack = <<>> THEN DocT ELSE stack[Len(stack)]
         IN  IF d[i].k = "open"
             THEN IsContainer(top) /\ ValidFrom(d, i + 1, Append(stack, d[i].type))
             ELSE IF d[i].k = "close"
                  THEN stack # <<>> /\ ValidFrom(d, i + 1, SubSeq(stack, 1, Len(stack) - 1))
                  ELSE IsTextblock(top) /\ ValidFrom(d, i + 1, stack)

Valid(d) == Len(d) > 0 /\ ValidFrom(d, 1, <<>>)

\* --------------------------------------------- prosemirror-transform steps
Closers(n) == [i \in 1..n |-> Close]

\* Fresh opening tokens for $to.node(lo + 1) .. $to.node(hi): the right-hand
\* halves the Fitter re-opens when it closes the gap up to $to.
Reopen(d, path, lo, hi) ==
    [i \in 1..(hi - lo) |-> Open(d[path[lo + i]].type, d[path[lo + i]].attrs)]

\* $pos.start(): start of the content of the innermost parent.
StartAt(path) == IF path = <<>> THEN 0 ELSE path[Len(path)]

\* replaceStep(doc, from, to, new Slice(Fragment.from(blocks), 0, 0)): the
\* step that tr.replaceWith / tr.insert build for a closed slice of block
\* nodes.  fitsTrivially: same parent and the parent takes block nodes.
\* Otherwise the Fitter places the nodes at the deepest ancestor of $from
\* that takes block nodes (closing the deeper ones), and closes towards $to
\* at the deepest level cl where $to has a block container, dropping the
\* inner nodes of $to when $to sits at their very end and re-opening them
\* otherwise.  The result replaces tokens from+1 .. to by ins.
Fit(d, from, to, blocks, pf, pt) ==
    LET Df == Len(pf)
        Dt == Len(pt)
    IN  IF StartAt(pf) = StartAt(pt) /\ IsContainer(TypeAt(d, pf, Df))
        THEN [from |-> from, to |-> to, ins |-> blocks]
        ELSE LET fd == Max({k \in 0..Df : IsContainer(TypeAt(d, pf, k))})
                 cl == Max({i \in 0..Min({fd, Dt}) : IsContainer(TypeAt(d, pt, i))})
                 dropInner == cl < Dt /\ EndAt(d, pt, cl + 1) = to + (Dt - (cl + 1))
                 to2 == IF dropInner THEN Match(d, pt[cl + 1]) ELSE to
                 reopen == IF dropInner THEN <<>> ELSE Reopen(d, pt, cl, Dt)
             IN  [from |-> from, to |-> to2,
                  ins |-> Closers(Df - fd) \o blocks \o Closers(fd - cl) \o reopen]

ReplaceStep(d, from, to, blocks) == Fit(d, from, to, blocks, Path(d, from), Path(d, to))

\* Step.apply of a replace step on the token sequence.
Splice(d, st) == SubSeq(d, 1, st.from) \o st.ins \o SubSeq(d, st.to + 1, Len(d))

\* A transaction under construction: tr.doc, tr.steps and whether a step
\* has thrown (doc.resolve out of range, TransformError, no node at pos).
NewTr(d) == [doc |-> d, steps |-> <<>>, ok |-> TRUE]

\* A step: the replaced range from..to, the size of what replaces it (the
\* step map's newSize), and the attributes a markup step sets.
StepRec(kind, from, to, size, a) ==
    [kind |-> kind, from |-> from, to |-> to, size |-> size, attrs |-> a]

\* tr.step(step): the step is applied and recorded, or it fails (the
\* result would break the schema) and the transaction throws.
TrStep(tr, st, nd) ==
    IF Valid(nd)
    THEN [doc |-> nd, steps |-> Append(tr.steps, StepRec("replace", st.from, st.to, Len(st.ins), NoAttrs)), ok |-> TRUE]
    ELSE [tr EXCEPT !.ok = FALSE]

TrApply(tr, st) == TrStep(tr, st, Splice(tr.doc, st))

\* tr.replaceWith(from, to, blocks); tr.insert(pos, nodes) is replaceWith(pos, pos, nodes).
TrReplaceWith(tr, from, to, blocks) ==
    IF ~tr.ok THEN tr
    ELSE IF from < 0 \/ to > Len(tr.doc) \/ from > to THEN [tr EXCEPT !.ok = FALSE]
    ELSE TrApply(tr, ReplaceStep(tr.doc, from, to, blocks))

\* tr.setNodeMarkup(pos, undefined, attrs): keeps the node's type and
\* content; throws when doc.nodeAt(pos) is no (non-text) node.  A type that
\* declares no attributes ignores the ones given.
TrSetNodeMarkup(tr, pos, a) ==
    IF ~tr.ok THEN tr
    ELSE IF pos < 0 \/ pos + 1 > Len(tr.doc) THEN [tr EXCEPT !.ok = FALSE]
    ELSE IF tr.doc[pos + 1].k # "open" THEN [tr EXCEPT !.ok = FALSE]
    ELSE LET na == IF tr.doc[pos + 1].type = FigureT THEN a ELSE NoAttrs
         IN  [doc |-> [tr.doc EXCEPT ![pos + 1].attrs = na],
              steps |-> Append(tr.steps, StepRec("setNodeMarkup", pos, pos, 0, na)),
              ok |-> TRUE]

\* ------------------------------------------------ serializer (renderHTML)
\* Text of the scratch DOM read back through innerHTML: the HTML
\* serialization escapes the markup characters of a text node.
Escape(c) ==
    IF c = "&" THEN <<"&", "a", "m", "p", ";">>
    ELSE IF c = "<" THEN <<"&", "l", "t", ";">>
    ELSE IF c = ">" THEN <<"&", "g", "t", ";">>
    ELSE <<c>>

RECURSIVE InnerHTML(_)
InnerHTML(content) ==
    IF content = <<>> THEN <<>> ELSE Escape(Head(content).ch) \o InnerHTML(Tail(content))

\* Inline content of the node opened at index i.
Content(d, i) == SubSeq(d, i + 1, Match(d, i) - 1)

Element(tag, inner) == [tag |-> tag, inner |-> inner]

\* Attachment.renderHTML: the children of the rendered <figure>.  The
\* content hole (0) of the figcaption receives the node's inline content.
RenderHTML(a, content) ==
    IF a.content = ""
    THEN <<Element("img", <<>>), Element("figcaption", InnerHTML(content))>>
    ELSE <<Element("figcaption", InnerHTML(content))>>

\* scratch.querySelector(tag): the first matching element, or none.
HasElement(children, tag) == \E j \in 1..Len(children) : children[j].tag = tag

QuerySelector(children, tag) ==
    children[Min({j \in 1..Len(children) : children[j].tag = tag})]

\* ------------------------------------------------- Reconciliation Pass
\* The transaction the callback mutates and the flag it sets.
Acc(tr, modified) == [tr |-> tr, modified |-> modified]

\* Mutant of handleGallery: tests the content size (0) against the node
\* size of an empty node (2) the wrong way round, so it never collapses.
handleGallery_ContentSize(orig, i, acc) ==
    IF orig[i].type # GalleryT THEN acc
    ELSE IF NodeSize(orig, i) = 0
         THEN Acc(TrReplaceWith(acc.tr, i - 1, i - 1 + NodeSize(orig, i), EmptyParagraph), TRUE)
         ELSE acc

\* Mutant of handleGallery: the replaced range runs one position too far.
handleGallery_RangeTooLong(orig, i, acc) ==
    IF orig[i].type # GalleryT THEN acc
    ELSE IF NodeSize(orig, i) = 2
         THEN Acc(TrReplaceWith(acc.tr, i - 1, i + NodeSize(orig, i), EmptyParagraph), TRUE)
         ELSE acc

\* Mutant of handleGallery: the empty gallery is removed, not replaced, so
\* every later position of the pass is off by two.
handleGallery_Removes(orig, i, acc) ==
    IF orig[i].type # GalleryT THEN acc
    ELSE IF NodeSize(orig, i) = 2
         THEN Acc(TrReplaceWith(acc.tr, i - 1, i - 1 + NodeSize(orig, i), <<>>), TRUE)
         ELSE acc

\* handleGallery(node, tr, newState, pos) with node at index i of
\* newState.doc; a handler that returns true sets the callback's flag.
handleGallery(orig, i, acc) ==
    IF orig[i].type # GalleryT THEN acc
    ELSE IF NodeSize(orig, i) = 2
         THEN IF ParagraphT \in schema
              THEN Acc(TrReplaceWith(acc.tr, i - 1, i - 1 + NodeSize(orig, i), EmptyParagraph), TRUE)
              ELSE Acc([acc.tr EXCEPT !.ok = FALSE], TRUE)
         ELSE acc

\* The caption read from the scratch render, given what is read of the
\* figcaption and the attributes written back.
CaptionSync(orig, i, acc, caption, written) ==
    IF orig[i].attrs.caption # caption
    THEN Acc(TrSetNodeMarkup(acc.tr, i - 1, written), TRUE)
    ELSE acc

RECURSIVE TextContent(_)
TextContent(content) ==
    IF content = <<>> THEN <<>> ELSE <<Head(content).ch>> \o TextContent(Tail(content))

\* Mutant of handleCaptions: reads figcaption.textContent, not innerHTML.
handleCaptions_TextContent(orig, i, acc) ==
    IF orig[i].type # FigureT THEN acc
    ELSE LET caption == TextContent(Content(orig, i))
         IN  CaptionSync(orig, i, acc, caption, [orig[i].attrs EXCEPT !.caption = caption])

\* Mutant of handleCaptions: { caption, ...node.attrs }, the stored caption
\* overwrites the new one.
handleCaptions_SpreadOrder(orig, i, acc) ==
    IF orig[i].type # FigureT THEN acc
    ELSE CaptionSync(orig, i, acc, InnerHTML(Content(orig, i)), orig[i].attrs)

\* Mutant of handleCaptions: { caption } alone, node.attrs is not spread.
handleCaptions_CaptionOnly(orig, i, acc) ==
    IF orig[i].type # FigureT THEN acc
    ELSE LET caption == InnerHTML(Content(orig, i))
         IN  CaptionSync(orig, i, acc, caption, [DefaultAttrs EXCEPT !.caption = caption])

\* handleCaptions(node, tr, newState, pos) with node at index i of newState.doc.
handleCaptions(orig, i, acc) ==
    IF orig[i].type # FigureT THEN acc
    ELSE LET scratch == RenderHTML(orig[i].attrs, Content(orig, i))
         IN  IF ~HasElement(scratch, "figcaption") THEN acc
             ELSE LET caption == QuerySelector(scratch, "figcaption").inner
                  IN  CaptionSync(orig, i, acc, caption, [orig[i].attrs EXCEPT !.caption = caption])

\* newState.doc.descendants(callback): every node in document order.
RECURSIVE Descendants(_, _, _)
Descendants(orig, i, acc) ==
    IF i > Len(orig) THEN acc
    ELSE IF orig[i].k = "close" THEN Descendants(orig, i + 1, acc)
    ELSE Descendants(orig, i + 1, handleCaptions(orig, i, handleGallery(orig, i, acc)))

\* Mutant of appendTransaction: returns tr whether or not it was modified.
appendTransaction_AlwaysTr(newState) ==
    [Descendants(newState, 1, Acc(NewTr(newState), FALSE)) EXCEPT !.modified = TRUE]

\* Plugin.appendTransaction: tr when modified, undefined otherwise.
appendTransaction(newState) == Descendants(newState, 1, Acc(NewTr(newState), FALSE))

\* What one run of the pass did: the document it read, whether it returned
\* a transaction, that transaction's steps and document, whether it threw.
PassRec(in, r) ==
    [input |-> in, emitted |-> r.modified /\ r.tr.ok, steps |-> r.tr.steps,
     output |-> r.tr.doc, threw |-> ~r.tr.ok]

\* EditorState.applyTransaction: appendTransaction is called again on
\* every appended transaction until it returns nothing.
RECURSIVE ApplyAppended(_, _, _)
Appended(d, fuel, ran, r) ==
    IF ~r.tr.ok THEN [doc |-> d, passes |-> Append(ran, PassRec(d, r)), ok |-> FALSE]
    ELSE IF r.modified /\ fuel > 1
         THEN ApplyAppended(r.tr.doc, fuel - 1, Append(ran, PassRec(d, r)))
         ELSE [doc |-> r.tr.doc, passes |-> Append(ran, PassRec(d, r)), ok |-> TRUE]

ApplyAppended(d, fuel, ran) == Appended(d, fuel, ran, appendTransaction(d))

\* ------------------------------------------------------------ selections
TextSel(a, h) == [kind |-> "text", anchor |-> a, head |-> h]
\* NodeSelection of the node opened at index i: $anchor before, $head after it.
NodeSel(d, i) == [kind |-> "node", anchor |-> i - 1, head |-> Match(d, i)]
AllSel(d) == [kind |-> "all", anchor |-> 0, head |-> Len(d)]

\* Positions whose parent has inline content (where a TextSelection may end).
Textblocks(d) == {i \in 1..Len(d) : d[i].k = "open" /\ IsTextblock(d[i].type)}

TextPositions(d) == UNION {i..(Match(d, i) - 1) : i \in Textblocks(d)}

\* The selections the model draws: cursors and ranges inside one textblock,
\* node selections of figures (Attachment.selectable), the whole document.
Selections(d) ==
    UNION {{TextSel(a, h) : a \in i..(Match(d, i) - 1), h \in i..(Match(d, i) - 1)} :
              i \in Textblocks(d)}
    \cup {NodeSel(d, i) : i \in {j \in 1..Len(d) : d[j].type = FigureT}}
    \cup {AllSel(d)}

SelFrom(s) == IF s.anchor < s.head THEN s.anchor ELSE s.head
SelTo(s) == IF s.anchor < s.head THEN s.head ELSE s.anchor

\* Selection.near($pos, bias): the text position at pos, else the nearest one
\* in the direction of bias, else in the other direction, else everything.
Near(d, pos, bias) ==
    LET tp == TextPositions(d)
        fwd == {p \in tp : p >= pos}
        bwd == {p \in tp : p <= pos}
        f == IF fwd # {} THEN Min(fwd) ELSE -1
        b == IF bwd # {} THEN Max(bwd) ELSE -1
        first == IF bias > 0 THEN f ELSE b
        second == IF bias > 0 THEN b ELSE f
    IN  IF pos \in tp THEN TextSel(pos, pos)
        ELSE IF first >= 0 THEN TextSel(first, first)
        ELSE IF second >= 0 THEN TextSel(second, second)
        ELSE AllSel(d)

\* StepMap.map(pos, assoc) for the one replaced range of a replace step.
MapPos(st, pos, assoc) ==
    IF pos < st.from THEN pos
    ELSE IF pos > st.to THEN pos + st.size - (st.to - st.from)
    ELSE LET side == IF st.to = st.from THEN assoc
                     ELSE IF pos = st.from THEN -1
                     ELSE IF pos = st.to THEN 1 ELSE assoc
         IN  st.from + (IF side < 0 THEN 0 ELSE st.size)

\* selection.map(tr.doc, tr.mapping) through one replace step.
MapSel(d, s, st) ==
    IF s.kind = "all" THEN AllSel(d)
    ELSE IF s.kind = "node"
         THEN LET a == MapPos(st, s.anchor, 1)
              IN  IF a + 1 <= Len(d) /\ d[a + 1].k = "open" /\ ~(s.anchor > st.from /\ s.anchor < st.to)
                  THEN NodeSel(d, a + 1) ELSE Near(d, a, 1)
         ELSE LET h == MapPos(st, s.head, 1)
                  a == MapPos(st, s.anchor, 1)
                  tp == TextPositions(d)
              IN  IF h \notin tp THEN Near(d, h, 1)
                  ELSE TextSel(IF a \in tp THEN a ELSE h, h)

\* selectionToInsertionEnd(tr, tr.steps.length - 1, -1): the selection goes
\* near the end of the range the last step inserted, looking backward.
selectionToInsertionEnd(tr) ==
    LET st == tr.steps[Len(tr.steps)]
    IN  Near(tr.doc, st.from + st.size, -1)

\* ------------------------------------------------------------ descriptors
\* The AttachmentManager objects handed to setAttachment: an image still
\* uploading with unknown dimensions and no caption, and an embed that
\* carries raw content markup and a caption holding a markup character.
DescImage ==
    [DefaultAttrs EXCEPT !.attachmentId = "1", !.contentType = "image/png",
                         !.fileName = <<"a", ".", "p", "n", "g">>, !.src = "blob", !.progress = 0]
\* A vector image, previewed because the descriptor says so.
DescVector ==
    [DefaultAttrs EXCEPT !.attachmentId = "3", !.contentType = "image/svg+xml",
                         !.fileName = <<"c", ".", "s", "v", "g">>, !.url = "v", !.previewable = TRUE]
DescEmbed ==
    [DefaultAttrs EXCEPT !.attachmentId = "2", !.contentType = "application/pdf",
                         !.fileName = <<"b", ".", "p", "d", "f">>, !.caption = <<"&">>, !.sgid = "s",
                         !.url = "u", !.content = "<b>", !.width = "1", !.height = "1"]

Descriptors == {DescImage, DescEmbed}

OptionLists == UNION {[1..n -> Descriptors] : n \in 1..MaxInsert}

\* schema.nodes["attachment-figure"].create(attachment,
\*     attachment.caption ? [schema.text(attachment.caption)] : [])
FigureNode(attachment) == <<Open(FigureT, attachment)>> \o Chars(attachment.caption) \o <<Close>>

RECURSIVE FigureNodes(_)
FigureNodes(attachments) ==
    IF attachments = <<>> THEN <<>>
    ELSE FigureNode(Head(attachments)) \o FigureNodes(Tail(attachments))

\* ----------------------------------------------------- Insertion Command
CmdResult(threw, br, tr, s) == [threw |-> threw, branch |-> br, tr |-> tr, sel |-> s]

\* tr.insert(...) of the merge branch: the selection is mapped through the step.
Merged(s, tr) ==
    IF tr.ok THEN CmdResult(FALSE, "merge", tr, MapSel(tr.doc, s, tr.steps[1]))
    ELSE CmdResult(TRUE, "merge", tr, s)

\* tr.replaceWith(...) of the create branch, then selectionToInsertionEnd.
Created(s, tr) ==
    IF tr.ok THEN CmdResult(FALSE, "create", tr, selectionToInsertionEnd(tr))
    ELSE CmdResult(TRUE, "create", tr, s)

\* setAttachment(options)({ state, tr, dispatch }): the transaction it builds.
\* currentSelection.node(1) is undefined for an anchor that resolves at
\* depth 0, and reading .type of it throws; so does .create of a node type
\* that schema.nodes does not hold.
setAttachment(d, s, options) ==
    LET currentSelection == Path(d, s.anchor)
        before == IF s.anchor - 2 < 0 THEN 0 ELSE s.anchor - 2
        nodeBefore == Path(d, before)
    IN  IF Len(currentSelection) < 1 THEN CmdResult(TRUE, "none", NewTr(d), s)
        ELSE LET isInGalleryCurrent == d[currentSelection[1]].type = GalleryT
                 isInGalleryAfter == Len(nodeBefore) >= 1 /\ d[nodeBefore[1]].type = GalleryT
                 isInGallery == isInGalleryCurrent \/ isInGalleryAfter
                 attachmentNodes == FigureNodes(options)
             IN  IF isInGallery
                 THEN LET end == EndAt(d, currentSelection, Len(currentSelection))
                          backtrack == IF isInGalleryCurrent THEN 0 ELSE 2
                      IN  Merged(s, TrReplaceWith(NewTr(d), end - backtrack, end - backtrack, attachmentNodes))
                 ELSE IF ParagraphT \notin schema
                      THEN CmdResult(TRUE, "create", NewTr(d), s)
                 ELSE LET gallery == <<Open(GalleryT, NoAttrs)>> \o attachmentNodes \o <<Close>>
                      IN  Created(s, TrReplaceWith(NewTr(d), SelFrom(s) - 1, SelTo(s),
                                                   EmptyParagraph \o gallery \o EmptyParagraph))

\* ------------------------------------------------------------ node views
Figures(d) == {i \in 1..Len(d) : d[i].k = "open" /\ d[i].type = FigureT}

\* isPreviewable = /^image(\/(gif|png|jpe?g)|$)/ on the content types drawn.
IsPreviewable(contentType) ==
    contentType \in {"image", "image/gif", "image/png", "image/jpg", "image/jpeg"}

canPreview(previewable, contentType) == previewable \/ IsPreviewable(contentType)

\* !width, !height: the empty string and the number 0 are falsy.  Widths
\* and heights are kept as strings; "0" stands for the number 0 that a load
\* detects, which no descriptor of the model carries as a string.
Falsy(v) == v \in {"", "0"}

\* addNodeView: img.onload is set when the figure previews and !width or
\* !height; the image then loads from url || src (no source, no load).
Pending(a) ==
    /\ canPreview(a.previewable, a.contentType)
    /\ (Falsy(a.width) \/ Falsy(a.height))
    /\ (a.url # "" \/ a.src # "")

\* A load under way: the attributes its view captured (node.attrs) and the
\* index of the figure's opening token, getPos() + 1; at = 0 stands for a
\* view that was destroyed, whose getPos() gives undefined.
Load(at, a) == [at |-> at, attrs |-> a]
NoLoad == Load(-1, DefaultAttrs)

\* The views of the initial document.
InitLoads(d) == {Load(j, d[j].attrs) : j \in {k \in Figures(d) : Pending(d[k].attrs)}}

\* A transaction that moves nothing.
NoStep == [from |-> 0, to |-> 0, size |-> 0]

\* Where the token at index i is after the step; 0 when the step replaced it.
MapIdx(st, i) ==
    IF i <= st.from THEN i
    ELSE IF i > st.to THEN i + st.size - (st.to - st.from)
    ELSE 0

\* Mutant of Retained: the view has an update method that takes any figure.
Retained_AnyMarkup(a, nd, j) ==
    j >= 1 /\ j <= Len(nd) /\ nd[j].k = "open" /\ nd[j].type = FigureT

\* The node view is kept for the node at index j: the view returns no
\* update method, so ProseMirror keeps it only for a node of the same markup.
Retained(a, nd, j) ==
    j >= 1 /\ j <= Len(nd) /\ nd[j].k = "open" /\ nd[j].type = FigureT /\ nd[j].attrs = a

\* The figure at index j of nd is shown by the view it had in od.
ViewKept(od, nd, st, j) ==
    \E i \in Figures(od) : MapIdx(st, i) = j /\ Retained(od[i].attrs, nd, j)

\* view.updateState: kept views follow their node, the others are
\* destroyed (a load under way still completes), and every figure without
\* a view gets a new one.
UpdateViews(ld, od, nd, st) ==
    {Load(IF l.at > 0 /\ Retained(l.attrs, nd, MapIdx(st, l.at)) THEN MapIdx(st, l.at) ELSE 0,
          l.attrs) : l \in ld}
    \cup {Load(j, nd[j].attrs) :
             j \in {k \in Figures(nd) : ~ViewKept(od, nd, st, k) /\ Pending(nd[k].attrs)}}

\* ------------------------------------------------- persisted form (HTML)
\* A value that may be undefined or null: <<>> or <<v>>.
Undefined == <<>>
Some(v) == <<v>>

\* Attribute names whose values are character sequences in this model.
SeqKeys == {"caption", "filename"}

\* JavaScript truthiness of a value that may be undefined.
Truthy(key, m) ==
    m # Undefined /\ (IF key \in SeqKeys THEN m[1] # <<>> ELSE ~Falsy(m[1]))

\* Every name the attribute parsers look up.
LookupKeys ==
    {"caption", "contentType", "content", "filename", "filesize", "height",
     "width", "sgid", "url", "src", "content-type", "previewable"}

\* JSON.stringify(object): the text of an object; a member the object
\* does not have is absent from the text.
Stringify(o) ==
    [kind |-> "json",
     members |-> [k \in LookupKeys |-> IF k \in DOMAIN o THEN Some(o[k]) ELSE Undefined]]

\* An attribute that is not there, and one whose value is not JSON.
Absent == [kind |-> "absent", members |-> [k \in LookupKeys |-> Undefined]]
Malformed == [kind |-> "malformed", members |-> [k \in LookupKeys |-> Undefined]]

\* The characters of the file names of the model that \w matches, and
\* toLowerCase on them.
WordChars == {"a", "b", "g", "n", "p", "x", "D", "E", "F", "M", "P", "R", "A", "_"}
IsWord(c) == c \in WordChars

toLowerCase(c) ==
    IF c = "A" THEN "a" ELSE IF c = "D" THEN "d" ELSE IF c = "E" THEN "e"
    ELSE IF c = "F" THEN "f" ELSE IF c = "M" THEN "m" ELSE IF c = "P" THEN "p"
    ELSE IF c = "R" THEN "r" ELSE c

RECURSIVE LowerStr(_)
LowerStr(s) == IF s = <<>> THEN "" ELSE toLowerCase(Head(s)) \o LowerStr(Tail(s))

\* fileName.match(/\.(\w+)$/)?.[1]: the word characters after the dot they
\* follow up to the end of the name, or undefined.
MatchExtension(fileName) ==
    LET n == Len(fileName)
        dots == {i \in 1..(n - 1) :
                    fileName[i] = "." /\ \A j \in (i + 1)..n : IsWord(fileName[j])}
    IN  IF dots = {} THEN Undefined ELSE Some(SubSeq(fileName, Min(dots) + 1, n))

\* toExtension(fileName): string concatenation turns undefined into the
\* text "undefined".
toExtension(fileName) ==
    IF fileName = <<>> THEN ""
    ELSE "attachment--" \o (IF MatchExtension(fileName) = Undefined THEN "undefined"
                            ELSE LowerStr(MatchExtension(fileName)[1]))

toType(content, previewable) ==
    IF content # "" THEN "attachment--content"
    ELSE IF previewable THEN "attachment--preview"
    ELSE "attachment--file"

\* The object serialized into data-trix-attachment.
attachmentAttrs(a) ==
    [caption |-> a.caption, contentType |-> a.contentType, content |-> a.content,
     filename |-> a.fileName, filesize |-> a.fileSize, height |-> a.height,
     width |-> a.width, sgid |-> a.sgid, url |-> a.url, src |-> a.src]

\* The class tokens of a class attribute: the names between the spaces.
ClassList(names) == {names[j] : j \in 1..Len(names)} \ {""}

\* An enclosing <action-text-attachment>, if there is one.
Wrapper(present, attrs) == [present |-> present, attrs |-> attrs]
NoWrapper == Wrapper(FALSE, [k \in LookupKeys |-> Undefined])

\* A <figure> element: its class tokens, its data-trix-attachment
\* attribute, its enclosing wrapper and its children.
Dom(tag, class, payload, wrapper, children) ==
    [tag |-> tag, class |-> class, payload |-> payload, wrapper |-> wrapper,
     children |-> children]
NoElement == Dom("none", {}, Absent, NoWrapper, <<>>)

\* Attachment.renderHTML({ node }): the whole element.
FigureElement(a, content) ==
    Dom("figure",
        ClassList(<<"attachment", "attachment",
                    toType(a.content, canPreview(a.previewable, a.contentType)),
                    toExtension(a.fileName)>>),
        Stringify(attachmentAttrs(a)), NoWrapper, RenderHTML(a, content))

\* The two parse rules: figure[data-trix-attachment] and figure.attachment.
MatchesRule(el) ==
    el.tag = "figure" /\ (el.payload.kind # "absent" \/ "attachment" \in el.class)

\* What an attribute parser returns or raises.
Ret(m) == [threw |-> FALSE, val |-> m]
Raised == [threw |-> TRUE, val |-> Undefined]

\* findAttribute(element, attribute)
findAttribute(el, attribute) ==
    IF el.wrapper.present /\ Truthy(attribute, el.wrapper.attrs[attribute])
    THEN Ret(el.wrapper.attrs[attribute])
    ELSE IF el.payload.kind = "absent" THEN Ret(Undefined)
    ELSE IF el.payload.kind = "malformed" THEN Raised
    ELSE Ret(el.payload.members[attribute])

\* a || b over parser results, b evaluated only when a is falsy.
OrElse(key, a, b) == IF a.threw \/ Truthy(key, a.val) THEN a ELSE b

\* caption.parseHTML
ParseCaption(el) ==
    IF HasElement(el.children, "figcaption")
       /\ QuerySelector(el.children, "figcaption").inner # <<>>
    THEN Ret(Some(QuerySelector(el.children, "figcaption").inner))
    ELSE findAttribute(el, "caption")

\* contentType.parseHTML
ParseContentType(el) ==
    OrElse("contentType", findAttribute(el, "content-type"),
        IF el.payload.kind # "json" THEN Raised
        ELSE OrElse("contentType", Ret(el.payload.members["contentType"]),
                    Ret(Some("application/octet-stream"))))

\* content.parseHTML
ParseContent(el) ==
    OrElse("content", findAttribute(el, "content"),
        IF el.wrapper.present THEN Ret(Some("<figure>")) ELSE Ret(Some("")))

\* previewable.parseHTML
ParsePreviewable(el) ==
    IF el.payload.kind = "malformed" THEN Raised
    ELSE Ret(el.payload.members["previewable"])

\* The parser of each attribute of addAttributes; attachmentId and
\* progress have none and are read from attributes the element lacks.
ParseAttr(el, name) ==
    IF name = "caption" THEN ParseCaption(el)
    ELSE IF name = "contentType" THEN ParseContentType(el)
    ELSE IF name = "content" THEN ParseContent(el)
    ELSE IF name = "previewable" THEN ParsePreviewable(el)
    ELSE IF name = "fileName" THEN findAttribute(el, "filename")
    ELSE IF name = "fileSize" THEN findAttribute(el, "filesize")
    ELSE IF name \in {"attachmentId", "progress"} THEN Ret(Undefined)
    ELSE findAttribute(el, name)

Parsed(done, threw, attrs) == [done |-> done, threw |-> threw, attrs |-> attrs]
NoParse == Parsed(FALSE, FALSE, DefaultAttrs)

\* The attributes of the node a matching element parses to: a parser
\* that returns null or undefined leaves the default.
ParseHTML(el) ==
    IF \E n \in AttrNames : ParseAttr(el, n).threw
    THEN Parsed(TRUE, TRUE, DefaultAttrs)
    ELSE Parsed(TRUE, FALSE,
                [n \in AttrNames |->
                    IF ParseAttr(el, n).val = Undefined THEN DefaultAttrs[n]
                    ELSE ParseAttr(el, n).val[1]])

\* A figure node handed to the serializer, if any.
Fig(present, attrs, content) == [present |-> present, attrs |-> attrs, content |-> content]
NoFigure == Fig(FALSE, DefaultAttrs, <<>>)

\* ---------------------------------------------------------------- commit
\* view.dispatch(tr): the transaction and everything appendTransaction adds
\* are applied as one commit; an exception leaves the state as it was.
Commit(nd, r, ns, op, br, a, st, ld) ==
    /\ Len(nd) <= MaxSize
    /\ lastOp' = op
    /\ branch' = br
    /\ args' = a
    /\ trDoc' = nd
    /\ passes' = r.passes
    /\ raised' = ~r.ok
    /\ UNCHANGED <<schema, htmlVars>>
    /\ IF r.ok THEN /\ doc' = r.doc /\ sel' = ns /\ committed' = TRUE
                    /\ loads' = UpdateViews(ld, doc, r.doc, st)
               ELSE /\ UNCHANGED <<doc, sel, committed>>
                    /\ loads' = ld

Dispatch(nd, ns, op, br, a, st, ld) ==
    Commit(nd, ApplyAppended(nd, MaxRounds, <<>>), ns, op, br, a, st, ld)

Throw(op, br, a, ld) ==
    /\ lastOp' = op
    /\ branch' = br
    /\ args' = a
    /\ raised' = TRUE
    /\ trDoc' = doc
    /\ passes' = <<>>
    /\ loads' = ld
    /\ UNCHANGED <<doc, sel, committed, schema, htmlVars>>

\* ---------------------------------------------------------------- actions
\* The command, run on the current state with one or more descriptors.
SetAttachment ==
    /\ edits < MaxEdits
    /\ edits' = edits + 1
    /\ fired' = NoLoad
    /\ \E options \in OptionLists : \E r \in {setAttachment(doc, sel, options)} :
            IF r.threw THEN Throw("setAttachment", r.branch, options, loads)
            ELSE Dispatch(r.tr.doc, r.sel, "setAttachment", r.branch, options,
                          r.tr.steps[1], loads)

\* The user or the program moves the selection (a transaction without steps).
SetSelection ==
    /\ UNCHANGED edits
    /\ fired' = NoLoad
    /\ \E r \in {ApplyAppended(doc, MaxRounds, <<>>)}, s \in Selections(doc) :
        Commit(doc, r, s, "setSelection", "none", <<>>, NoStep, loads)

TextAlphabet == {"a", "&"}

\* Typing one character at the cursor (in a caption or a paragraph).
InsertText ==
    /\ edits < MaxEdits
    /\ edits' = edits + 1
    /\ fired' = NoLoad
    /\ sel.kind = "text" /\ sel.anchor = sel.head
    /\ \E c \in TextAlphabet :
        LET nd == SubSeq(doc, 1, sel.anchor) \o <<Char(c)>> \o SubSeq(doc, sel.anchor + 1, Len(doc))
        IN  Dispatch(nd, TextSel(sel.anchor + 1, sel.anchor + 1), "insertText", "none", <<>>,
                     [from |-> sel.anchor, to |-> sel.anchor, size |-> 1], loads)

\* Deleting the selected range or the selected figure.
DeleteSelection ==
    /\ edits < MaxEdits
    /\ edits' = edits + 1
    /\ fired' = NoLoad
    /\ sel.kind \in {"text", "node"} /\ sel.anchor # sel.head
    /\ LET nd == SubSeq(doc, 1, SelFrom(sel)) \o SubSeq(doc, SelTo(sel) + 1, Len(doc))
       IN  /\ Valid(nd)
           /\ Dispatch(nd, Near(nd, SelFrom(sel), 1), "deleteSelection", "none", <<>>,
                       [from |-> SelFrom(sel), to |-> SelTo(sel), size |-> 0], loads)

\* Backspace at a cursor that follows a character.
DeleteBackward ==
    /\ edits < MaxEdits
    /\ edits' = edits + 1
    /\ sel.kind = "text" /\ sel.anchor = sel.head
    /\ fired' = NoLoad
    /\ sel.anchor >= 1 /\ doc[sel.anchor].k = "text"
    /\ LET nd == SubSeq(doc, 1, sel.anchor - 1) \o SubSeq(doc, sel.anchor + 1, Len(doc))
       IN  Dispatch(nd, TextSel(sel.anchor - 1, sel.anchor - 1), "deleteBackward", "none", <<>>,
                    [from |-> sel.anchor - 1, to |-> sel.anchor, size |-> 0], loads)

\* Attribute writes by the rest of the editor (upload progress, a caption
\* set from outside, known dimensions).
Patches == {[progress |-> 50], [caption |-> <<"a">>], [width |-> "1", height |-> "1"]}

Patch(a, patch) == [n \in AttrNames |-> IF n \in DOMAIN patch THEN patch[n] ELSE a[n]]

UpdateAttributes ==
    /\ edits < MaxEdits
    /\ edits' = edits + 1
    /\ fired' = NoLoad
    /\ \E i \in {j \in 1..Len(doc) : doc[j].type = FigureT}, patch \in Patches :
        Dispatch([doc EXCEPT ![i].attrs = Patch(doc[i].attrs, patch)], sel,
                 "updateAttributes", "none", <<>>, NoStep, loads)

\* naturalWidth / naturalHeight of a loaded image (kept as strings, like the
\* width and height the descriptors carry).  A raster image has a size; an
\* image without natural dimensions (a vector image with no size of its
\* own) may report 0 for both.
NaturalSizes(a) ==
    IF a.contentType \in {"image/gif", "image/png", "image/jpg", "image/jpeg"}
    THEN {[width |-> "2", height |-> "3"]}
    ELSE {[width |-> "2", height |-> "3"], [width |-> "0", height |-> "0"]}

\* img.onload of one view: the detected dimensions are written over the
\* attributes the view captured, at getPos().  For a destroyed view getPos()
\* is undefined and tr.setNodeMarkup raises.
OnLoad ==
    /\ edits < MaxEdits
    /\ edits' = edits + 1
    /\ \E l \in loads : \E n \in NaturalSizes(l.attrs) :
        /\ fired' = l
        /\ \E tr \in {TrSetNodeMarkup(NewTr(doc), l.at - 1,
                                       [l.attrs EXCEPT !.height = n.height, !.width = n.width])} :
            IF tr.ok THEN Dispatch(tr.doc, sel, "onload", "none", <<>>, NoStep, loads \ {l})
            ELSE Throw("onload", "none", <<>>, loads \ {l})

\* ------------------------------------------------------- initial states
Para(text) == <<Open(ParagraphT, NoAttrs)>> \o Chars(text) \o <<Close>>
Gallery(children) == <<Open(GalleryT, NoAttrs)>> \o children \o <<Close>>

\* Documents as the parser may deliver them, before any commit: a
\* paragraph, a gallery left empty beside a figure outside any gallery, a
\* gallery followed by text, a figure whose caption attribute has no
\* matching content, a gallery of two figures; and a vector image, its
\* caption attribute without matching content, between two empty galleries.
InitDocs ==
    { Gallery(<<>>) \o <<Open(FigureT, [DescVector EXCEPT !.caption = <<"a">>]), Close>>
          \o Gallery(<<>>),
      Para(<<"a">>),
      Gallery(<<>>) \o FigureNode(DescEmbed),
      Gallery(FigureNode(DescImage)) \o Para(<<"a">>),
      <<Open(FigureT, [DescImage EXCEPT !.caption = <<"a">>]), Close>> \o Para(<<>>),
      Gallery(FigureNode(DescImage) \o FigureNode(DescEmbed)) }

\* ------------------------------------------------- vocabulary of the claims
EmptyGalleries(d) ==
    {i \in 1..Len(d) : d[i].k = "open" /\ d[i].type = GalleryT /\ d[i + 1].k = "close"}

\* Figures whose caption attribute differs from the markup of their content.
OutOfSync(d) == {i \in Figures(d) : d[i].attrs.caption # InnerHTML(Content(d, i))}

PassIdx == 1..Len(passes)

\* C1: after a commit completes no attachment-gallery with zero children is
\* in the document, and every gallery the edit left empty stands replaced,
\* at its position, by one empty paragraph.
C1_NoEmptyGallery ==
    committed =>
        /\ EmptyGalleries(doc) = {}
        /\ ~raised =>
            /\ Len(doc) = Len(trDoc)
            /\ \A i \in EmptyGalleries(trDoc) :
                SubSeq(doc, i, i + 1) = EmptyParagraph

\* Scenario 3: deleting the only figure of a gallery left it empty.
C1_Witness ==
    /\ committed /\ ~raised
    /\ lastOp = "deleteSelection"
    /\ EmptyGalleries(trDoc) # {}

\* C2: after every committed transaction each figure's caption attribute
\* equals the serialized inner markup of its caption content.
C2_CaptionInSync == committed => OutOfSync(doc) = {}

\* Typing in a caption left the attribute behind, and the commit caught up;
\* the markup differs from the raw text.
C2_Witness ==
    /\ committed /\ ~raised
    /\ lastOp = "insertText"
    /\ \E i \in OutOfSync(trDoc) :
        /\ doc[i].attrs.caption # trDoc[i].attrs.caption
        /\ Len(doc[i].attrs.caption) > Len(Content(doc, i))

\* C3: one run of the pass returns a transaction exactly when a check fires
\* on some node, that transaction carries one step per correction, and no
\* transaction without steps is ever returned.
C3_OneTransactionOrNone ==
    \A k \in PassIdx :
        LET p == passes[k]
            fires == EmptyGalleries(p.input) # {} \/ OutOfSync(p.input) # {}
        IN  /\ p.emitted <=> fires
            /\ p.emitted <=> p.steps # <<>>
            /\ Len(p.steps) = Cardinality(EmptyGalleries(p.input)) + Cardinality(OutOfSync(p.input))

\* One run corrected an empty gallery and a caption in a single transaction,
\* and the run after it returned nothing.
C3_Witness ==
    /\ Len(passes) = 2
    /\ passes[1].emitted /\ ~passes[2].emitted
    /\ \E a, b \in 1..Len(passes[1].steps) :
        passes[1].steps[a].kind = "replace" /\ passes[1].steps[b].kind = "setNodeMarkup"

\* C4: the pass run on the result of its own corrective transaction returns
\* nothing, so the commit loop stops after at most one correction round.
C4_Idempotent ==
    /\ \A k \in PassIdx :
        passes[k].emitted => ~appendTransaction(passes[k].output).modified
    /\ Len(passes) <= 2
    /\ passes # <<>> => ~passes[Len(passes)].emitted

C4_Witness ==
    /\ Len(passes) = 2
    /\ passes[1].emitted
    /\ passes[2].input = passes[1].output
    /\ passes[2].steps = <<>>

\* C5: a caption correction changes the caption attribute of its figure and
\* nothing else: type, content and the other twelve attributes stay, and so
\* does every token that no correction of the pass addresses.
C5_CaptionStepFrame ==
    \A k \in PassIdx :
        LET p == passes[k]
        IN  p.emitted =>
            /\ Len(p.output) = Len(p.input)
            /\ \A i \in OutOfSync(p.input) :
                /\ p.output[i].k = "open" /\ p.output[i].type = FigureT
                /\ \A n \in AttrNames \ {"caption"} : p.output[i].attrs[n] = p.input[i].attrs[n]
                /\ p.output[i].attrs.caption = InnerHTML(Content(p.input, i))
                /\ Content(p.output, i) = Content(p.input, i)
            /\ \A j \in 1..Len(p.input) :
                (j \notin OutOfSync(p.input) /\ j \notin EmptyGalleries(p.input)
                    /\ j - 1 \notin EmptyGalleries(p.input))
                => p.output[j] = p.input[j]

\* A caption was corrected on a figure that carries non-default attributes
\* and content, in a document that holds another figure.
C5_Witness ==
    \E k \in PassIdx : \E i \in OutOfSync(passes[k].input) :
        /\ passes[k].emitted
        /\ passes[k].input[i].attrs.content # ""
        /\ Content(passes[k].input, i) # <<>>
        /\ Cardinality(Figures(passes[k].input)) >= 2

\* C6: the pass never raises, and a figure whose scratch render holds no
\* figcaption gets no correction.
C6_PassNeverRaises ==
    \A k \in PassIdx :
        LET p == passes[k]
        IN  /\ ~p.threw
            /\ \A i \in Figures(p.input) :
                ~HasElement(RenderHTML(p.input[i].attrs, Content(p.input, i)), "figcaption")
                => \A j \in 1..Len(p.steps) : p.steps[j].from # i - 1

\* The pass ran to its end over a document in an inconsistent shape: an
\* empty gallery and a figure whose attribute and content disagree.
C6_Witness ==
    \E k \in PassIdx :
        /\ ~passes[k].threw
        /\ EmptyGalleries(passes[k].input) # {}
        /\ OutOfSync(passes[k].input) # {}
        /\ Len(passes[k].steps) >= 2

\* A step of the Insertion Command, run on a committed document.
CommandStep == committed /\ edits' = edits + 1 /\ lastOp' = "setAttachment"

\* The top-level block that holds pos is a gallery.
InGallery(d, pos) == LET p == Path(d, pos) IN Len(p) >= 1 /\ d[p[1]].type = GalleryT

Clamp(n) == IF n < 0 THEN 0 ELSE n

\* d with the tokens toks inserted at position q.
InsertAt(d, q, toks) == SubSeq(d, 1, q) \o toks \o SubSeq(d, q + 1, Len(d))

IsLeaf(t) == t.k = "text" \/ (t.k = "open" /\ t.type = FigureT)

\* The content a document holds: its text and its figures, in order.
Leaves(d) == SelectSeq(d, IsLeaf)

\* C7: the command merges exactly when the block that holds the anchor, or
\* the one that holds max(anchor - 2, 0), is a gallery, and creates a new
\* gallery in every other case.
C7_MergeIffInGallery ==
    [][CommandStep =>
        LET inGallery == InGallery(doc, sel.anchor) \/ InGallery(doc, Clamp(sel.anchor - 2))
        IN  /\ inGallery => branch' = "merge"
            /\ ~inGallery => branch' = "create"]_vars

\* C8: merging into the gallery that holds the selection puts the new
\* figures at the end of that gallery's content, in descriptor order, and
\* changes nothing else.
C8_MergeAppendsToGallery ==
    [][(CommandStep /\ branch' = "merge" /\ InGallery(doc, sel.anchor)) =>
        LET g == Path(doc, sel.anchor)[1]
        IN  trDoc' = InsertAt(doc, Match(doc, g) - 1, FigureNodes(args'))]_vars

\* C9: when the gallery matched is the preceding one, the new figures
\* become children of that gallery, whatever the selection's block holds.
C9_PrecedingGalleryReceives ==
    [][(CommandStep /\ branch' = "merge" /\ ~InGallery(doc, sel.anchor)) =>
        LET g == Path(doc, Clamp(sel.anchor - 2))[1]
        IN  \E q \in g..(Match(doc, g) - 1) :
                /\ Path(doc, q) = <<g>>
                /\ trDoc' = InsertAt(doc, q, FigureNodes(args'))]_vars

\* C10: without a merge the selection's range from..to is replaced by
\* [paragraph, gallery of the new figures, paragraph]; the content outside
\* the range stays, and a cursor removes nothing.
C10_CreateKeepsContent ==
    [][(CommandStep /\ branch' = "create") =>
        LET three == EmptyParagraph \o Gallery(FigureNodes(args')) \o EmptyParagraph
        IN  /\ \E q \in 0..(Len(trDoc') - Len(three)) :
                SubSeq(trDoc', q + 1, q + Len(three)) = three
            /\ Leaves(trDoc') = Leaves(SubSeq(doc, 1, SelFrom(sel)))
                                \o Leaves(FigureNodes(args'))
                                \o Leaves(SubSeq(doc, SelTo(sel) + 1, Len(doc)))]_vars

\* The block structure and text of a document, attributes left aside.
Shape(d) == [i \in 1..Len(d) |-> <<d[i].k, d[i].type, d[i].ch>>]

\* The three blocks the create branch inserts stand in d, one after another.
HasThree(d, options) ==
    LET three == Shape(EmptyParagraph \o Gallery(FigureNodes(options)) \o EmptyParagraph)
    IN  \E q \in 0..(Len(d) - Len(three)) : SubSeq(Shape(d), q + 1, q + Len(three)) = three

\* C11: one descriptor inserted with no gallery around the selection leaves
\* [paragraph, gallery(figure), paragraph] in the committed document, and the
\* selection of the new state lies inside that gallery.
C11_CreateSelectsGallery ==
    (lastOp = "setAttachment" /\ branch = "create" /\ ~raised /\ Len(args) = 1) =>
        /\ HasThree(doc, args)
        /\ InGallery(doc, sel.anchor)

\* C12: when the schema lacks a node type the command uses, the command
\* returns false: it does not raise, dispatches nothing and leaves the
\* document and the selection as they were.
C12_MissingTypeReturnsFalse ==
    [][(CommandStep /\ schema # FullSchema) =>
        (~raised' /\ doc' = doc /\ sel' = sel /\ passes' = <<>>)]_vars

\* C13: with the full schema the command succeeds on every document and
\* every selection, the ones whose anchor resolves at the top level
\* included: it does not raise, and its transaction is dispatched.
C13_CommandAlwaysSucceeds ==
    [][(CommandStep /\ schema = FullSchema) =>
        (~raised' /\ branch' \in {"merge", "create"} /\ Len(passes') >= 1)]_vars

\* What one pass owes a document: an empty paragraph in the place of every
\* empty gallery, the caption attribute of every out-of-sync figure
\* rewritten, every other token as it was.
Corrected(d) ==
    [j \in 1..Len(d) |->
        IF j \in EmptyGalleries(d) THEN Open(ParagraphT, NoAttrs)
        ELSE IF j \in OutOfSync(d) THEN [d[j] EXCEPT !.attrs.caption = InnerHTML(Content(d, j))]
        ELSE d[j]]

\* C19: within one pass every correction lands on the node it was computed
\* for: the steps address, with positions of the document the pass read,
\* exactly the empty galleries and the out-of-sync figures, and the result
\* is that document with all of them corrected and nothing else altered.
C19_CorrectionsHitTheirNodes ==
    \A k \in PassIdx :
        LET p == passes[k]
        IN  /\ ~p.threw
            /\ {p.steps[j].from + 1 : j \in 1..Len(p.steps)}
                   = EmptyGalleries(p.input) \cup OutOfSync(p.input)
            /\ p.output = Corrected(p.input)

\* One pass corrected two empty galleries and, between them, a figure.
C19_Witness ==
    \E k \in PassIdx :
        /\ passes[k].emitted
        /\ \E g, h \in EmptyGalleries(passes[k].input) : \E i \in OutOfSync(passes[k].input) :
            g < i /\ i < h
        /\ passes[k].output = Corrected(passes[k].input)
        /\ passes[k].output # passes[k].input

\* A step in which the load callback of one view ran, on a committed document.
LoadStep == committed /\ lastOp' = "onload" /\ fired' \in loads /\ fired' \notin loads'

\* C14: when the load completes for a figure that is no longer at its
\* recorded position, the write-back does nothing: no error, no transaction,
\* no attribute of any node changed.
C14_VanishedTargetSkipped ==
    [][(LoadStep /\ fired'.at = 0) =>
        (~raised' /\ doc' = doc /\ passes' = <<>>)]_vars

\* C15: a write-back happens only to a previewed figure with an unknown
\* width or height, goes through a dispatched transaction on which the pass
\* runs, and leaves the figure with known dimensions and no load under way,
\* so it happens once; no load is under way for a figure whose width and
\* height are both known.
C15_WriteBackOnce ==
    /\ [](\A l \in loads : l.at > 0 =>
            /\ doc[l.at].attrs = l.attrs
            /\ canPreview(l.attrs.previewable, l.attrs.contentType)
            /\ (doc[l.at].attrs.width = "" \/ doc[l.at].attrs.height = ""))
    /\ [][(LoadStep /\ fired'.at > 0) =>
            /\ ~raised' /\ Len(passes') >= 1
            /\ (doc[fired'.at].attrs.width = "" \/ doc[fired'.at].attrs.height = "")
            /\ doc'[fired'.at].attrs.width # "" /\ doc'[fired'.at].attrs.height # ""
            /\ \A l \in loads' : l.at # fired'.at]_vars

\* C20: the write-back changes width and height of its figure and nothing
\* else: every other attribute keeps the value it had before the load
\* completed, also when it was changed after the view's creation.
C20_WriteBackKeepsNewer ==
    [][(LoadStep /\ fired'.at > 0 /\ ~raised') =>
        /\ Shape(doc') = Shape(doc)
        /\ \A j \in Figures(doc) \ {fired'.at} : doc'[j] = doc[j]
        /\ \A n \in AttrNames \ {"width", "height"} :
                doc'[fired'.at].attrs[n] = doc[fired'.at].attrs[n]]_vars

\* A write-back committed for a figure whose progress and caption had been
\* changed after its first view was created; that view's load is still
\* under way.
C20_Witness ==
    /\ lastOp = "onload" /\ ~raised /\ fired.at > 0
    /\ \E l \in loads :
        /\ l.at = 0
        /\ l.attrs.attachmentId = doc[fired.at].attrs.attachmentId
        /\ l.attrs.progress # doc[fired.at].attrs.progress
    /\ doc[fired.at].attrs.width = "2"
    /\ doc[fired.at].attrs.height = "3"

Init ==
    /\ schema = FullSchema
    /\ doc \in InitDocs
    /\ sel = Near(doc, 0, 1)
    /\ committed = FALSE
    /\ lastOp = "init"
    /\ branch = "none"
    /\ args = <<>>
    /\ raised = FALSE
    /\ trDoc = doc
    /\ passes = <<>>
    /\ edits = 0
    /\ loads = InitLoads(doc)
    /\ fired = NoLoad
    /\ figure = NoFigure
    /\ element = NoElement
    /\ parsed = NoParse

Next ==
    \/ SetAttachment
    \/ SetSelection
    \/ InsertText
    \/ DeleteSelection
    \/ DeleteBackward
    \/ UpdateAttributes
    \/ OnLoad

Spec == Init /\ [][Next]_vars

\* Documents of an editor whose schema has no paragraph node.
PartialDocs ==
    { FigureNode(DescImage),
      Gallery(FigureNode(DescImage)),
      FigureNode(DescEmbed) \o Gallery(FigureNode(DescImage)),
      Gallery(FigureNode(DescImage) \o FigureNode(DescEmbed)) }

NodeTypes(d) == {d[i].type : i \in {j \in 1..Len(d) : d[j].k = "open"}}

\* The editor configured with one of the partial schemas.
InitSchema ==
    /\ schema \in PartialSchemas
    /\ doc \in {d \in PartialDocs : NodeTypes(d) \subseteq schema}
    /\ sel = Near(doc, 0, 1)
    /\ committed = FALSE
    /\ lastOp = "init"
    /\ branch = "none"
    /\ args = <<>>
    /\ raised = FALSE
    /\ trDoc = doc
    /\ passes = <<>>
    /\ edits = 0
    /\ loads = InitLoads(doc)
    /\ fired = NoLoad
    /\ figure = NoFigure
    /\ element = NoElement
    /\ parsed = NoParse

SpecSchema == InitSchema /\ [][Next]_vars

\* ------------------------------------------- serializer and parser alone
editorVars ==
    <<doc, sel, committed, lastOp, branch, args, raised, trDoc, passes, edits,
      schema, loads, fired>>

\* Caption attribute and inline content of the figures serialized: none,
\* in sync (plain and with an escaped character), a caption attribute the
\* pass has not yet rewritten, and a caption attribute without content.
CaptionPairs ==
    { <<<<>>, <<>>>>, <<<<"a">>, <<"a">>>>, <<InnerHTML(Chars(<<"&">>)), <<"&">>>>,
      <<<<"&">>, <<"&">>>>, <<<<"a">>, <<>>>> }

ContentTypes == {"", "image/png", "application/pdf"}

FileNames ==
    { <<>>, <<"a", ".", "p", "n", "g">>, <<"R", "E", "A", "D", "M", "E">>,
      <<"b", ".", "P", "D", "F">>, <<"a", ".">>, <<"a", ".", "b", "-", "x">> }

\* fileSize, sgid, url, src, width and height: all unset, or all set.
Locators ==
    { [fileSize |-> "", sgid |-> "", url |-> "", src |-> "", width |-> "", height |-> ""],
      [fileSize |-> "9", sgid |-> "s", url |-> "u", src |-> "blob", width |-> "2", height |-> "3"] }

HtmlFigures ==
    { Fig(TRUE,
          [n \in AttrNames |->
              IF n = "caption" THEN c[1]
              ELSE IF n = "contentType" THEN t
              ELSE IF n = "fileName" THEN f
              ELSE IF n = "content" THEN m
              ELSE IF n \in DOMAIN l THEN l[n]
              ELSE DefaultAttrs[n]],
          Chars(c[2])) :
        c \in CaptionPairs, t \in ContentTypes, f \in FileNames, m \in {"", "<b>"},
        l \in Locators }

\* Members of the payloads written by the legacy dialect: one without a
\* contentType, one complete.
LegacyBare == [filename |-> <<"a", ".", "p", "n", "g">>, url |-> "u", caption |-> <<"a">>]
LegacyFull ==
    [filename |-> <<"a", ".", "p", "n", "g">>, url |-> "u", caption |-> <<>>,
     contentType |-> "image/png", previewable |-> TRUE]

ContentTypeWrapper ==
    Wrapper(TRUE, [k \in LookupKeys |-> IF k = "content-type" THEN Some("image/png")
                                        ELSE Undefined])

\* Elements that reach the parser from outside the editor.
ImportedElements ==
    { Dom("figure", {"attachment"}, p, w, c) :
        p \in {Absent, Malformed, Stringify(LegacyBare), Stringify(LegacyFull)},
        w \in {NoWrapper, ContentTypeWrapper},
        c \in { <<>>, <<Element("figcaption", <<"a">>)>>,
                 <<Element("img", <<>>), Element("figcaption", <<>>)>> } }

\* editor.getHTML() on a figure.
RenderFigure ==
    /\ figure.present
    /\ element.tag = "none"
    /\ element' = FigureElement(figure.attrs, figure.content)
    /\ UNCHANGED <<figure, parsed, editorVars>>

\* Markup of either import dialect is handed to the editor.
ImportElement ==
    /\ ~figure.present
    /\ element.tag = "none"
    /\ \E e \in ImportedElements : element' = e
    /\ UNCHANGED <<figure, parsed, editorVars>>

\* The element matches a parse rule and its attributes are parsed.
ParseFigure ==
    /\ MatchesRule(element)
    /\ ~parsed.done
    /\ parsed' = ParseHTML(element)
    /\ UNCHANGED <<figure, element, editorVars>>

InitHTML ==
    /\ schema = FullSchema
    /\ doc = EmptyParagraph
    /\ sel = Near(doc, 0, 1)
    /\ committed = FALSE
    /\ lastOp = "init"
    /\ branch = "none"
    /\ args = <<>>
    /\ raised = FALSE
    /\ trDoc = doc
    /\ passes = <<>>
    /\ edits = 0
    /\ loads = InitLoads(doc)
    /\ fired = NoLoad
    /\ figure \in HtmlFigures \cup {NoFigure}
    /\ element = NoElement
    /\ parsed = NoParse

NextHTML ==
    \/ RenderFigure
    \/ ImportElement
    \/ ParseFigure

SpecHTML == InitHTML /\ [][NextHTML]_vars

\* The descriptor fields the persisted form must preserve.
RoundTripFields ==
    {"caption", "contentType", "fileName", "fileSize", "width", "height", "url", "src", "sgid"}

\* C16: parsing the serialized form of a figure gives back, on each of the
\* nine descriptor fields, the value the figure carried, empty defaults
\* included.
C16_RoundTrip ==
    (figure.present /\ parsed.done) =>
        /\ ~parsed.threw
        /\ \A f \in RoundTripFields : parsed.attrs[f] = figure.attrs[f]

\* The fields a payload that is missing or malformed cannot supply, with
\* the defaults the parser declares for them.
PayloadDefaults ==
    [n \in AttrNames \ {"caption", "content"} |->
        IF n = "contentType" THEN "application/octet-stream" ELSE DefaultAttrs[n]]

\* C17: an imported figure whose data-trix-attachment payload is missing or
\* malformed parses without raising, every field the payload would have
\* supplied at its default (contentType "application/octet-stream",
\* progress 100, previewable false); and a payload that lacks contentType
\* parses to contentType "application/octet-stream".
C17_BadPayloadFallsBack ==
    (~figure.present /\ parsed.done /\ ~element.wrapper.present) =>
        /\ element.payload.kind \in {"absent", "malformed"} =>
              /\ ~parsed.threw
              /\ \A n \in DOMAIN PayloadDefaults : parsed.attrs[n] = PayloadDefaults[n]
        /\ (element.payload.kind = "json"
               /\ element.payload.members["contentType"] = Undefined) =>
              /\ ~parsed.threw
              /\ parsed.attrs.contentType = "application/octet-stream"

\* A file name with a recognizable extension: a dot followed, up to the
\* end of the name, by one or more word characters.
HasExtension(fileName) ==
    \E i \in 1..(Len(fileName) - 1) :
        fileName[i] = "." /\ \A j \in (i + 1)..Len(fileName) : IsWord(fileName[j])

\* C18: the class list of a serialized figure whose fileName has no
\* recognizable extension holds the base class and the mode class only, no
\* attachment--<something> made from the file name.
C18_NoExtensionNoClass ==
    (figure.present /\ element.tag = "figure" /\ ~HasExtension(figure.attrs.fileName)) =>
        element.class \subseteq
            {"attachment", "attachment--content", "attachment--preview", "attachment--file"}

\* Sanity of the model itself: the document is schema-valid and the
\* selection is one ProseMirror could hold.
ModelOK ==
    /\ Valid(doc)
    /\ sel.anchor \in 0..Len(doc) /\ sel.head \in 0..Len(doc)
    /\ sel.kind = "text" => {sel.anchor, sel.head} \subseteq TextPositions(doc)
    /\ sel.kind = "node" => doc[sel.anchor + 1].k = "open" /\ sel.head = Match(doc, sel.anchor + 1)
====
